---- MODULE Spec2Model ----
(***************************************************************************)
(* A model of the record store, the multi-partition queries, the reports   *)
(* and the hydraulic calculator of tp25-api.                               *)
(*                                                                         *)
(* Numbers.  A float64 is modelled in fixed point: the integer v stands    *)
(* for the real v / Scale.  An integer-typed value carries the same        *)
(* scaling, so int 2 is 2 * Scale.  The time fields (_id, t, c) are whole  *)
(* seconds or milliseconds and are not scaled.  A quotient that need not   *)
(* be a multiple of 1 / Scale is kept as a pair <<num, den>>, standing for *)
(* num / (den * Scale).  math.Sqrt is evaluated to three decimals.         *)
(*                                                                         *)
(* Values.  A field value is [ty |-> its dynamic type, v |-> its number].  *)
(* On the Go side the types are float64, int64, int, int32 and string; in  *)
(* a stored document they are double, int64, int32 and string.             *)
(***************************************************************************)
EXTENDS Integers, Sequences, FiniteSets, TLC

VARIABLES db, calc, pending, resp

vars == <<db, calc, pending, resp>>

----------------------------------------------------------------------------
(* Bounds of the model *)

NumBoxes == 2
MaxKey == 1
MaxSkip == 1
MaxLimit == 2
NumClients == 2
BulkCount == 21
MaxTokens == 3
MaxMetrics == 2
MaxPoints == 4

----------------------------------------------------------------------------
(* Fixed-point arithmetic *)

Scale == 100 * 100

Abs(a) == IF a < 0 THEN -a ELSE a

\* Go's int(f): the quotient truncated toward zero (b > 0).
TruncDiv(a, b) == IF a >= 0 THEN a \div b ELSE -((-a) \div b)

\* a * b of two fixed-point numbers, truncated to 1 / Scale.
Mul(a, b) ==
    LET s == IF (a < 0) # (b < 0) THEN -1 ELSE 1
        x == Abs(a)
        y == Abs(b)
    IN s * (x * (y \div Scale) + (x * (y % Scale)) \div Scale)

RECURSIVE ISqrtBetween(_, _, _)
\* The greatest n in lo..hi with n * n <= v (lo * lo <= v is given).
ISqrtBetween(lo, hi, v) ==
    IF lo >= hi THEN lo
    ELSE LET mid == (lo + hi + 1) \div 2
         IN IF mid * mid <= v THEN ISqrtBetween(mid, hi, v)
                              ELSE ISqrtBetween(lo, mid - 1, v)

\* math.Sqrt of a fixed-point number a >= 0, to three decimals.
Sqrt(a) == (Scale \div 1000) * ISqrtBetween(0, 46340, a * (1000000 \div Scale))

----------------------------------------------------------------------------
(* domain.RoundValue *)

\* float64(int(f*100+0.5)) / 100 for f = num / (den * Scale), den > 0.
RoundValueQ(num, den) ==
    (Scale \div 100) * TruncDiv(num + (Scale \div 200) * den, (Scale \div 100) * den)

RoundValue(f) == RoundValueQ(f, 1)

----------------------------------------------------------------------------
(* Typed values and records *)

Float64(v) == [ty |-> "float64", v |-> v]
Int64(v) == [ty |-> "int64", v |-> v]
GoInt(v) == [ty |-> "int", v |-> v]
Int32(v) == [ty |-> "int32", v |-> v]
Str(v) == [ty |-> "string", v |-> v]

\* r with field k set to val (r[k] = val on a Go map).
Put(r, k, val) == [f \in DOMAIN r \cup {k} |-> IF f = k THEN val ELSE r[f]]

\* r without field k.
Unset(r, k) == [f \in DOMAIN r \ {k} |-> r[f]]

\* Record.GetFloat
GetFloat(r, key) ==
    IF key \in DOMAIN r /\ r[key].ty \in {"float64", "int64", "int"}
    THEN r[key].v
    ELSE 0

----------------------------------------------------------------------------
(* lib/interpolation: Curve *)

Point(x, y) == [X |-> x, Y |-> y]

NilCurve == [IsNil |-> TRUE, Points |-> <<>>]

RECURSIVE IdxSortsByX(_, _)
\* Every order of the indices I in which the X of the points does not fall:
\* sort.Slice is not stable, so points of equal X may end in any order.
IdxSortsByX(I, points) ==
    IF I = {} THEN {<<>>}
    ELSE LET low == {i \in I : \A j \in I : points[i].X <= points[j].X}
         IN UNION {{<<i>> \o rest : rest \in IdxSortsByX(I \ {i}, points)} : i \in low}

\* NewCurve: the curves sort.Slice may leave.
NewCurve(points) ==
    {[IsNil |-> FALSE, Points |-> [k \in 1..Len(points) |-> points[s[k]]]] :
        s \in IdxSortsByX(1..Len(points), points)}

\* The first segment i with Points[i].X <= x <= Points[i+1].X, or 0.
RECURSIVE FirstSegment(_, _, _)
FirstSegment(pts, x, i) ==
    IF i > Len(pts) - 1 THEN 0
    ELSE IF x >= pts[i].X /\ x <= pts[i + 1].X THEN i
    ELSE FirstSegment(pts, x, i + 1)

\* A lookup that returns the Y of the point before x, without interpolating.
InterpolateStep(c, x) ==
    LET pts == c.Points
        n == Len(pts)
    IN IF n = 0 THEN <<0, 1>>
       ELSE IF n = 1 THEN <<pts[1].Y, 1>>
       ELSE IF x <= pts[1].X THEN <<pts[1].Y, 1>>
       ELSE IF x >= pts[n].X THEN <<pts[n].Y, 1>>
       ELSE LET i == FirstSegment(pts, x, 1)
            IN IF i = 0 THEN <<0, 1>> ELSE <<pts[i].Y, 1>>

\* A lookup that gives 0 outside the curve instead of the end values.
InterpolateInside(c, x) ==
    LET pts == c.Points
        i == FirstSegment(pts, x, 1)
    IN IF Len(pts) < 2 \/ i = 0 THEN <<0, 1>>
       ELSE <<pts[i].Y * (pts[i + 1].X - pts[i].X) + (x - pts[i].X) * (pts[i + 1].Y - pts[i].Y),
              pts[i + 1].X - pts[i].X>>

\* Curve.Interpolate: the result as <<num, den>>.
Interpolate(c, x) ==
    LET pts == c.Points
        n == Len(pts)
    IN IF n = 0 THEN <<0, 1>>
       ELSE IF n = 1 THEN <<pts[1].Y, 1>>
       ELSE IF x <= pts[1].X THEN <<pts[1].Y, 1>>
       ELSE IF x >= pts[n].X THEN <<pts[n].Y, 1>>
       ELSE LET i == FirstSegment(pts, x, 1)
            IN IF i = 0 THEN <<0, 1>>
               ELSE LET x1 == pts[i].X
                        y1 == pts[i].Y
                        x2 == pts[i + 1].X
                        y2 == pts[i + 1].Y
                    IN <<y1 * (x2 - x1) + (x - x1) * (y2 - y1), x2 - x1>>

----------------------------------------------------------------------------
(* lib/interpolation: HydraulicCalculator *)

DefaultVolumePoints ==
    << Point(0, 0), Point(1 * Scale, Scale \div 2), Point(2 * Scale, (12 * Scale) \div 10),
       Point(3 * Scale, (21 * Scale) \div 10), Point(4 * Scale, (32 * Scale) \div 10),
       Point(5 * Scale, (45 * Scale) \div 10) >>

DefaultOverflowM == (49 * Scale) \div 100
DefaultOverflowB == 10 * Scale
DefaultOverflowG == (981 * Scale) \div 100

NewHydraulicCalculator ==
    {[VolumeCurve |-> vc, FlowCurve |-> NilCurve, OverflowM |-> DefaultOverflowM,
      OverflowB |-> DefaultOverflowB, OverflowG |-> DefaultOverflowG] :
        vc \in NewCurve(DefaultVolumePoints)}

CalculateWaterIndex(h, wau) == Interpolate(h.VolumeCurve, wau)

\* A calculator that never consults the flow curve.
CalculateWaterFlowByFormula(h, wau, dr) ==
    IF wau <= 0 THEN <<0, 1>>
    ELSE <<Mul(dr, Sqrt(Mul(Mul(2 * Scale, h.OverflowG), wau))), 1>>

CalculateWaterFlow(h, wau, dr) ==
    IF ~h.FlowCurve.IsNil THEN Interpolate(h.FlowCurve, wau)
    ELSE IF wau <= 0 THEN <<0, 1>>
    ELSE <<Mul(dr, Sqrt(Mul(Mul(2 * Scale, h.OverflowG), wau))), 1>>

\* An overflow that grows with wau in place of wau^1.5.
CalculateWaterOverFlowLinear(h, wau) ==
    IF wau <= 0 THEN <<0, 1>>
    ELSE <<Mul(Mul(h.OverflowM, h.OverflowB),
               Sqrt(Mul(Mul(2 * Scale, h.OverflowG), wau))), 1>>

\* m * B * sqrt(2g) * wau^1.5, evaluated as m * B * sqrt(2g * wau^3): the two
\* are the same real number, and one root keeps the three decimals of Sqrt.
CalculateWaterOverFlow(h, wau) ==
    IF wau <= 0 THEN <<0, 1>>
    ELSE <<Mul(Mul(h.OverflowM, h.OverflowB),
               Sqrt(Mul(Mul(2 * Scale, h.OverflowG), Mul(Mul(wau, wau), wau)))), 1>>

----------------------------------------------------------------------------
(* service.SensorService.applyInterpolation *)

WithQ(h, record, wau) ==
    LET dr == GetFloat(record, "DR")
    IN IF dr > 0
       THEN LET q == CalculateWaterFlow(h, wau, dr)
            IN Put(record, "Q", Float64(RoundValueQ(q[1], q[2])))
       ELSE record

\* applyInterpolation with the overflow added to the Q_of the record holds.
applyInterpolationAdding(h, record) ==
    LET wau == GetFloat(record, "WAU")
    IN IF wau = 0 THEN record
       ELSE LET v == CalculateWaterIndex(h, wau)
                r1 == Put(record, "V", Float64(RoundValueQ(v[1], v[2])))
                r2 == WithQ(h, r1, wau)
                qOf == CalculateWaterOverFlow(h, wau)
            IN Put(r2, "Q_of", Float64(GetFloat(record, "Q_of") + RoundValueQ(qOf[1], qOf[2])))

\* applyInterpolation without the test of wau against zero.
applyInterpolationAlways(h, record) ==
    LET wau == GetFloat(record, "WAU")
        v == CalculateWaterIndex(h, wau)
        r1 == Put(record, "V", Float64(RoundValueQ(v[1], v[2])))
        r2 == WithQ(h, r1, wau)
        qOf == CalculateWaterOverFlow(h, wau)
    IN Put(r2, "Q_of", Float64(RoundValueQ(qOf[1], qOf[2])))

applyInterpolation(h, record) ==
    LET wau == GetFloat(record, "WAU")
    IN IF wau = 0 THEN record
       ELSE LET v == CalculateWaterIndex(h, wau)
                r1 == Put(record, "V", Float64(RoundValueQ(v[1], v[2])))
                r2 == WithQ(h, r1, wau)
                qOf == CalculateWaterOverFlow(h, wau)
            IN Put(r2, "Q_of", Float64(RoundValueQ(qOf[1], qOf[2])))

----------------------------------------------------------------------------
(* The documents of a collection *)

Min2(a, b) == IF a < b THEN a ELSE b

\* The BSON type the driver writes for a Go value, and the Go type it
\* decodes a stored value to (an int that fits 32 bits is written as int32).
EncodeValue(val) ==
    [ty |-> CASE val.ty = "float64" -> "double"
              [] val.ty = "int" -> "int32"
              [] OTHER -> val.ty,
     v |-> val.v]

DecodeValue(val) ==
    [ty |-> IF val.ty = "double" THEN "float64" ELSE val.ty, v |-> val.v]

EncodeRecord(record) == [f \in DOMAIN record |-> EncodeValue(record[f])]

DecodeRecord(doc) == [f \in DOMAIN doc |-> DecodeValue(doc[f])]

\* time.Now().UnixMilli()
NowMillis == {1000 + 700}

Boxes == 1..NumBoxes

\* sensor_data_<boxID>: a collection that was never written to is empty.
getRecordCollection(boxID) == db[boxID]

\* InsertOne: the unique index on _id rejects a document whose _id is stored.
DuplicateKey(coll, doc) == \E d \in coll : d["_id"].v = doc["_id"].v

\* A store that replaces the stored document instead of rejecting the new one.
InsertOneOverwrite(coll, doc) == {d \in coll : d["_id"].v # doc["_id"].v} \cup {doc}

InsertOne(coll, doc) == IF DuplicateKey(coll, doc) THEN coll ELSE coll \cup {doc}

InsertOneErr(coll, doc) == IF DuplicateKey(coll, doc) THEN "E11000 duplicate key" ELSE ""

\* A repository that stamps every record, whether or not it carries c.
WithCreateTimeAlways(record, now) == Put(record, "c", Int64(now))

\* AddRecord / ImportRecord of the repository, up to the InsertOne call.
WithCreateTime(record, now) ==
    IF "c" \in DOMAIN record THEN record ELSE Put(record, "c", Int64(now))

\* The document the service hands to InsertOne.
PrepareRecord(h, record, now) ==
    EncodeRecord(WithCreateTime(applyInterpolation(h, record), now))

----------------------------------------------------------------------------
(* Queries: domain.QueryRecord *)

\* A *int is <<>> (nil) or <<n>>.
Query(time, skip, limit) == [IsNil |-> FALSE, Time |-> time, Skip |-> skip, Limit |-> limit]

NilQuery == [IsNil |-> TRUE, Time |-> <<>>, Skip |-> <<>>, Limit |-> <<>>]

HasRange(query) == ~query.IsNil /\ Len(query.Time) = 2

\* $match
Match(coll, query) ==
    IF HasRange(query)
    THEN {d \in coll : d["_id"].v >= query.Time[1] /\ d["_id"].v <= query.Time[2]}
    ELSE coll

ListDefaultLimit == 20
GroupDefaultLimit == 20

SkipOf(query) == IF ~query.IsNil /\ query.Skip # <<>> THEN query.Skip[1] ELSE 0

LimitOf(query, default) == IF ~query.IsNil /\ query.Limit # <<>> THEN query.Limit[1] ELSE default

RECURSIVE SortsByIdDesc(_)
\* $sort {_id: -1}: every order of the documents in which _id does not rise;
\* the order of documents of equal _id is not defined.
SortsByIdDesc(S) ==
    IF S = {} THEN {<<>>}
    ELSE LET top == {d \in S : \A e \in S : d["_id"].v >= e["_id"].v}
         IN UNION {{<<d>> \o rest : rest \in SortsByIdDesc(S \ {d})} : d \in top}

\* $limit placed before $skip.
PageLimitFirst(sorted, skip, limit) ==
    SubSeq(sorted, skip + 1, Min2(Len(sorted), limit))

\* $skip, $limit
Page(sorted, skip, limit) == SubSeq(sorted, skip + 1, Min2(Len(sorted), skip + limit))

\* $addFields {id: "$_id"}, $unset "_id"
RenameId(doc) == Unset(Put(doc, "id", doc["_id"]), "_id")

RenameAll(docs) == [i \in 1..Len(docs) |-> DecodeRecord(RenameId(docs[i]))]

\* A tag that names the first box whatever the collection.
TagFirst(coll, boxID) == {Put(d, "box_id", Str(1)) : d \in coll}

\* $addFields {box_id: boxID}
Tag(coll, boxID) == {Put(d, "box_id", Str(boxID)) : d \in coll}

----------------------------------------------------------------------------
(* State *)

Clients == 1..NumClients

Idle == [busy |-> FALSE, op |-> "", boxID |-> 0, record |-> <<>>, doc |-> <<>>]

NoResp == [op |-> "none"]

Init ==
    /\ db = [b \in Boxes |-> {}]
    /\ calc \in NewHydraulicCalculator
    /\ pending = [c \in Clients |-> Idle]
    /\ resp = NoResp

----------------------------------------------------------------------------
(* Inputs *)

Keys == 0..MaxKey

\* A reading with one metric and no level: the calculator leaves it alone.
Reading(k, t) == [f \in {"_id", "T"} |-> IF f = "_id" THEN Int32(k) ELSE Float64(t)]

StoreInputs == {Reading(k, Scale) : k \in Keys}

\* The boxes of a group, as the directory lists them: in rising order, or
\* the first two swapped.
BoxLists ==
    {ids \in UNION {[1..n -> Boxes] : n \in 0..NumBoxes} :
        \/ \A i, j \in DOMAIN ids : i < j => ids[i] < ids[j]
        \/ ids = <<2, 1>>}

Times == {<<>>} \cup {t \in Keys \X Keys : t[1] <= t[2]}

\* A range whose start lies after its end.
InvertedTimes == {<<MaxKey, 0>>}

\* The group handler always sets skip and limit.
GroupQueries ==
    {NilQuery} \cup
    {Query(t, <<s>>, <<l>>) : t \in Times, s \in 0..MaxSkip, l \in 1..MaxLimit} \cup
    {Query(t, <<0>>, <<MaxLimit>>) : t \in InvertedTimes}

----------------------------------------------------------------------------
(* SensorService.AddRecord / ImportRecord, as one step *)

\* The caller is sequential: it reads the response of one call (Respond)
\* before it makes the next.
Ready == resp.op = "none"

Respond ==
    /\ ~Ready
    /\ resp' = NoResp
    /\ UNCHANGED <<db, calc, pending>>

Insert(op, boxID, record) ==
    /\ Ready
    /\ \E now \in NowMillis :
        LET doc == PrepareRecord(calc, record, now)
            coll == getRecordCollection(boxID)
        IN /\ db' = [db EXCEPT ![boxID] = InsertOne(coll, doc)]
           /\ resp' = [op |-> op, boxID |-> boxID, record |-> record, doc |-> doc,
                       err |-> InsertOneErr(coll, doc)]
           /\ UNCHANGED <<calc, pending>>

AddRecord(boxID, record) == Insert("AddRecord", boxID, record)

ImportRecord(boxID, record) == Insert("ImportRecord", boxID, record)

----------------------------------------------------------------------------
(* SensorRepository.ListRecordsByGroup *)

\* A $unionWith pipeline without its $match stage.
GroupUnionUnfiltered(boxIDs, query) ==
    UNION {Tag(IF i = 1 THEN Match(getRecordCollection(boxIDs[i]), query)
                        ELSE getRecordCollection(boxIDs[i]), boxIDs[i]) : i \in 1..Len(boxIDs)}

\* The first collection's $match and $addFields, then one $unionWith per
\* further box.
GroupUnion(boxIDs, query) ==
    UNION {Tag(Match(getRecordCollection(boxIDs[i]), query), boxIDs[i]) : i \in 1..Len(boxIDs)}

\* The results the $facet stage may give: records and total.
GroupResults(boxIDs, query) ==
    LET all == GroupUnion(boxIDs, query)
    IN {[Records |-> RenameAll(Page(s, SkipOf(query), LimitOf(query, GroupDefaultLimit))),
         Total |-> Cardinality(all)] : s \in SortsByIdDesc(all)}

\* ListRecordsByGroup without the early return for an empty list.
ListRecordsByGroupAlways(boxIDs, query) ==
    /\ Ready
    /\ resp' \in {[op |-> "ListRecordsByGroup", boxIDs |-> boxIDs, query |-> query,
                    err |-> "", Records |-> r.Records, Total |-> r.Total, calls |-> 1] :
                       r \in GroupResults(boxIDs, query)}
    /\ UNCHANGED <<db, calc, pending>>

\* calls is the number of Aggregate calls made on the store.
ListRecordsByGroup(boxIDs, query) ==
    /\ Ready
    /\ resp' \in IF Len(boxIDs) = 0
                 THEN {[op |-> "ListRecordsByGroup", boxIDs |-> boxIDs, query |-> query,
                        err |-> "", Records |-> <<>>, Total |-> 0, calls |-> 0]}
                 ELSE {[op |-> "ListRecordsByGroup", boxIDs |-> boxIDs, query |-> query,
                        err |-> "", Records |-> r.Records, Total |-> r.Total, calls |-> 1] :
                           r \in GroupResults(boxIDs, query)}
    /\ UNCHANGED <<db, calc, pending>>

----------------------------------------------------------------------------
(* SensorRepository.ListRecordsLatestByGroup *)

\* $sort {_id: 1} in place of {_id: -1}.
Oldest1(coll) == {d \in coll : \A e \in coll : d["_id"].v <= e["_id"].v}

\* $sort {_id: -1}, $limit 1 on one collection.
Latest1(coll) == {d \in coll : \A e \in coll : d["_id"].v >= e["_id"].v}

LatestUnion(boxIDs) ==
    UNION {Tag(Latest1(getRecordCollection(boxIDs[i])), boxIDs[i]) : i \in 1..Len(boxIDs)}

LatestResults(boxIDs) ==
    {[Records |-> RenameAll(s), Total |-> Len(s)] : s \in SortsByIdDesc(LatestUnion(boxIDs))}

ListRecordsLatestByGroup(boxIDs) ==
    /\ Ready
    /\ resp' \in IF Len(boxIDs) = 0
                 THEN {[op |-> "ListRecordsLatestByGroup", boxIDs |-> boxIDs,
                        err |-> "", Records |-> <<>>, Total |-> 0, calls |-> 0]}
                 ELSE {[op |-> "ListRecordsLatestByGroup", boxIDs |-> boxIDs,
                        err |-> "", Records |-> r.Records, Total |-> r.Total, calls |-> 1] :
                           r \in LatestResults(boxIDs)}
    /\ UNCHANGED <<db, calc, pending>>

----------------------------------------------------------------------------
(* The store with its group queries *)

Next ==
    \/ \E b \in Boxes, r \in StoreInputs : AddRecord(b, r)
    \/ \E b \in Boxes, r \in StoreInputs : ImportRecord(b, r)
    \/ \E ids \in BoxLists, q \in GroupQueries : ListRecordsByGroup(ids, q)
    \/ \E ids \in BoxLists : ListRecordsLatestByGroup(ids)
    \/ Respond

Spec == Init /\ [][Next]_vars

----------------------------------------------------------------------------
(* SensorRepository.ListRecords and CountRecords *)

ListRecordsResult(boxID, query) ==
    LET matched == Match(getRecordCollection(boxID), query)
        sorted == CHOOSE s \in SortsByIdDesc(matched) : TRUE
    IN [Records |-> RenameAll(Page(sorted, SkipOf(query), LimitOf(query, ListDefaultLimit))),
        Total |-> Cardinality(matched)]

ListRecords(boxID, query) ==
    /\ Ready
    /\ LET r == ListRecordsResult(boxID, query)
       IN resp' = [op |-> "ListRecords", boxID |-> boxID, query |-> query, err |-> "",
                   Records |-> r.Records, Total |-> r.Total]
    /\ UNCHANGED <<db, calc, pending>>

\* A count that leaves the range out of its filter.
CountDocumentsAll(coll, query) == Cardinality(coll)

\* CountDocuments with the filter of CountRecords.
CountDocuments(coll, query) == Cardinality(Match(coll, query))

CountRecords(boxID, query) ==
    /\ Ready
    /\ resp' = [op |-> "CountRecords", boxID |-> boxID, query |-> query, err |-> "",
                Total |-> CountDocuments(getRecordCollection(boxID), query)]
    /\ UNCHANGED <<db, calc, pending>>

----------------------------------------------------------------------------
(* One partition and its paged queries; box 1 may hold more records than   *)
(* the default page.                                                       *)

BulkKeys == (MaxKey + 1)..(MaxKey + BulkCount)

BulkDocs == {PrepareRecord(h, Reading(k, Scale), now) :
                h \in NewHydraulicCalculator, now \in NowMillis, k \in BulkKeys}

InitList ==
    /\ db \in {[b \in Boxes |-> IF b = 1 THEN first ELSE {}] : first \in {{}, BulkDocs}}
    /\ calc \in NewHydraulicCalculator
    /\ pending = [c \in Clients |-> Idle]
    /\ resp = NoResp

ListTimes == Times \cup {<<1, MaxKey + BulkCount>>, <<MaxKey + 1, MaxKey + BulkCount>>}

\* The list handler sets skip and limit, the export handler sets neither.
ListQueries ==
    {NilQuery} \cup
    {Query(t, s, l) : t \in ListTimes,
                      s \in {<<>>} \cup {<<n>> : n \in 0..MaxSkip},
                      l \in {<<>>} \cup {<<n>> : n \in 1..MaxLimit}} \cup
    {Query(t, <<0>>, <<MaxLimit>>) : t \in InvertedTimes}

CountQueries == {NilQuery} \cup {Query(t, <<>>, <<>>) : t \in ListTimes \cup InvertedTimes}

\* Only box 1 is written to; the other boxes stay empty.
NextList ==
    \/ \E r \in StoreInputs : ImportRecord(1, r)
    \/ \E b \in Boxes, q \in ListQueries : ListRecords(b, q)
    \/ \E b \in Boxes, q \in CountQueries : CountRecords(b, q)
    \/ Respond

SpecList == InitList /\ [][NextList]_vars

----------------------------------------------------------------------------
(* Concurrent inserts into one partition: each client prepares its         *)
(* document, then issues InsertOne; the store serialises the InsertOne     *)
(* calls.                                                                  *)

\* A reading that carries its own ingest time, a level and an int field.
Stamped(k) ==
    [f \in {"_id", "T", "c", "WAU", "N"} |->
        CASE f = "_id" -> Int32(k)
          [] f = "T" -> Float64(2 * Scale)
          [] f = "c" -> Int64(5)
          [] f = "WAU" -> Float64(2 * Scale)
          [] OTHER -> GoInt(3 * Scale)]

ImportRecordPrepare(c, boxID, record) ==
    /\ ~pending[c].busy
    /\ \E now \in NowMillis :
          pending' = [pending EXCEPT ![c] =
                         [busy |-> TRUE, op |-> "ImportRecord", boxID |-> boxID,
                          record |-> record, doc |-> PrepareRecord(calc, record, now)]]
    /\ UNCHANGED <<db, calc, resp>>

ImportRecordInsertOne(c) ==
    /\ pending[c].busy
    /\ Ready
    /\ LET p == pending[c]
           coll == getRecordCollection(p.boxID)
       IN /\ db' = [db EXCEPT ![p.boxID] = InsertOne(coll, p.doc)]
          /\ resp' = [op |-> p.op, boxID |-> p.boxID, record |-> p.record, doc |-> p.doc,
                      err |-> InsertOneErr(coll, p.doc)]
    /\ pending' = [pending EXCEPT ![c] = Idle]
    /\ UNCHANGED calc

NextInsert ==
    \/ \E c \in Clients, r \in {Reading(k, Scale) : k \in Keys} \cup {Stamped(k) : k \in Keys} :
          ImportRecordPrepare(c, 1, r)
    \/ \E c \in Clients : ImportRecordInsertOne(c)
    \/ Respond

SpecInsert == Init /\ [][NextInsert]_vars

----------------------------------------------------------------------------
(* SensorRepository.ReportRecords and ZoneRepository.ReportByMetric        *)

MaxDay == 1

SecondsPerDay == 24 * 3600

\* $toDate of seconds * 1000 (UTC), as <<year, month, day>>; the day number
\* is floor(milliseconds / 86400000) = floor(seconds / 86400).
DateOf(sec) ==
    LET z == (sec \div SecondsPerDay) + 719468
        era == z \div 146097
        doe == z - era * 146097
        yoe == (doe - doe \div 1460 + doe \div 36524 - doe \div 146096) \div 365
        doy == doe - (365 * yoe + yoe \div 4 - yoe \div 100)
        mp == (5 * doy + 2) \div 153
        d == doy - (153 * mp + 2) \div 5 + 1
        m == IF mp < 10 THEN mp + 3 ELSE mp - 9
        y == yoe + era * 400 + (IF m <= 2 THEN 1 ELSE 0)
    IN <<y, m, d>>

\* The order of the "%Y-%m-%d" strings of two dates.
DateBefore(a, b) ==
    \/ a[1] < b[1]
    \/ a[1] = b[1] /\ a[2] < b[2]
    \/ a[1] = b[1] /\ a[2] = b[2] /\ a[3] < b[3]

\* The driver decodes an array of a bson.M into a primitive.A.
Array(elems) == [ty |-> "primitive.A", v |-> elems]

\* x.([]interface{})
IsSliceOfInterface(x) == x.ty = "[]interface {}"

\* $match, $addFields date, $group by date of ReportRecords.
DailyGroups(coll, query) ==
    LET matched == Match(coll, query)
        dated == {Put(d, "date", Str(DateOf(d["_id"].v))) : d \in matched}
    IN {[_id |-> dt, count |-> Cardinality({d \in dated : d["date"].v = dt}),
         data |-> Array({d \in dated : d["date"].v = dt})] :
            dt \in {d["date"].v : d \in dated}}

RECURSIVE SortByDate(_)
\* $sort {_id: 1}
SortByDate(G) ==
    IF G = {} THEN <<>>
    ELSE LET g == CHOOSE x \in G : \A y \in G \ {x} : DateBefore(x._id, y._id)
         IN <<g>> \o SortByDate(G \ {g})

\* The items of a data array in which key holds a float64.
FloatItems(data, key) ==
    {r \in {DecodeRecord(d) : d \in data} : key \in DOMAIN r /\ r[key].ty = "float64"}

RECURSIVE SumOf(_, _)
SumOf(items, key) ==
    IF items = {} THEN 0
    ELSE LET r == CHOOSE x \in items : TRUE
         IN r[key].v + SumOf(items \ {r}, key)

\* One domain.DailyReport of ReportRecords.
DailyRow(result) ==
    LET data == result.data.v
        keys == {k \in UNION {DOMAIN d : d \in data} \ {"_id", "c", "date"} :
                    FloatItems(data, k) # {}}
        vals(k) == {r[k].v : r \in FloatItems(data, k)}
    IN [Date |-> result._id, Count |-> result.count,
        Avg |-> [k \in keys |-> RoundValueQ(SumOf(FloatItems(data, k), k),
                                            Cardinality(FloatItems(data, k)))],
        Min |-> [k \in keys |-> RoundValue(CHOOSE v \in vals(k) : \A w \in vals(k) : v <= w)],
        Max |-> [k \in keys |-> RoundValue(CHOOSE v \in vals(k) : \A w \in vals(k) : v >= w)]]

ReportRecords(boxID, query) ==
    /\ Ready
    /\ LET results == SortByDate(DailyGroups(getRecordCollection(boxID), query))
           panics == \E i \in DOMAIN results : ~IsSliceOfInterface(results[i].data)
       IN resp' = [op |-> "ReportRecords", boxID |-> boxID, query |-> query,
                   panic |-> panics,
                   reports |-> IF panics THEN <<>>
                               ELSE [i \in DOMAIN results |-> DailyRow(results[i])]]
    /\ UNCHANGED <<db, calc, pending>>

\* Aggregate fails on a source in which $multiply meets a t that is no number.
AggregateFails(coll) == \E d \in coll : "t" \in DOMAIN d /\ d["t"].ty = "string"

\* $match t exists, $project year and month of t, $group of ReportByMetric.
MonthlyGroups(coll) ==
    LET matched == {d \in coll : "t" \in DOMAIN d}
        ym(d) == [year |-> DateOf(d["t"].v)[1], month |-> DateOf(d["t"].v)[2]]
    IN {[_id |-> g, count |-> Cardinality({d \in matched : ym(d) = g}),
         data |-> Array({d \in matched : ym(d) = g})] : g \in {ym(d) : d \in matched}}

RECURSIVE Orders(_)
\* The pipeline has no $sort: the groups arrive in any order.
Orders(G) ==
    IF G = {} THEN {<<>>}
    ELSE UNION {{<<g>> \o rest : rest \in Orders(G \ {g})} : g \in G}

\* The results of one source; a source whose Aggregate fails is skipped.
SourceResults(source) ==
    IF AggregateFails(getRecordCollection(source)) THEN {<<>>}
    ELSE Orders(MonthlyGroups(getRecordCollection(source)))

RECURSIVE MetricRows(_, _)
\* The domain.Report rows of one group, one per metric with a float64 value.
MetricRows(result, metrics) ==
    IF metrics = <<>> THEN <<>>
    ELSE LET metric == Head(metrics)
             items == FloatItems(result.data.v, metric)
             report == [Count |-> result.count,
                        Total |-> RoundValue(SumOf(items, metric)),
                        Info |-> [Year |-> result._id.year, Month |-> result._id.month,
                                  Metric |-> metric]]
         IN (IF items # {} THEN <<report>> ELSE <<>>) \o MetricRows(result, Tail(metrics))

RECURSIVE RowsOf(_, _)
RowsOf(results, metrics) ==
    IF results = <<>> THEN <<>>
    ELSE MetricRows(Head(results), metrics) \o RowsOf(Tail(results), metrics)

RECURSIVE AllReports(_, _)
AllReports(sources, metrics) ==
    IF sources = <<>> THEN {<<>>}
    ELSE {RowsOf(results, metrics) \o rest :
            results \in SourceResults(Head(sources)),
            rest \in AllReports(Tail(sources), metrics)}

ReportByMetric(sources, metrics) ==
    /\ Ready
    /\ LET panics == \E i \in DOMAIN sources : \E results \in SourceResults(sources[i]) :
                        \E j \in DOMAIN results : ~IsSliceOfInterface(results[j].data)
       IN \E reports \in (IF panics THEN {<<>>} ELSE AllReports(sources, metrics)) :
            resp' = [op |-> "ReportByMetric", sources |-> sources, metrics |-> metrics,
                     panic |-> panics, reports |-> reports]
    /\ UNCHANGED <<db, calc, pending>>

----------------------------------------------------------------------------
(* Readings of several days and months, and the reports over them          *)

DayKeys == {d * SecondsPerDay : d \in 0..MaxDay} \cup {SecondsPerDay - 1}

\* A reading with the sample time t and the metric T; Str(0) is the text "0".
Measured(k, t, val) ==
    [f \in {"_id", "t", "T"} |-> CASE f = "_id" -> Int32(k) [] f = "t" -> t [] OTHER -> val]

ReportInputs ==
    UNION {{Measured(k, Int32(0), Float64(Scale + 2350)),
            Measured(k, Int32(31 * SecondsPerDay), Float64(2 * Scale)),
            Measured(k, Int32(0), Int64(2 * Scale)),
            Measured(k, Str(0), Float64(Scale)),
            [f \in {"_id", "t", "H"} |->
                CASE f = "_id" -> Int32(k) [] f = "t" -> Int32(0) [] OTHER -> Str("wet")]} :
           k \in DayKeys}

ReportQueries ==
    {Query(t, <<>>, <<>>) :
        t \in {<<>>} \cup {t \in DayKeys \X DayKeys : t[1] <= t[2]} \cup {<<SecondsPerDay, 0>>}}

MetricLists == {<<"T">>, <<"T", "H">>}

NextReport ==
    \* Box 1 holds readings of every day, the other boxes of the first day only.
    \/ \E b \in Boxes, r \in ReportInputs :
          /\ b = 1 \/ (b = 2 /\ r["_id"].v = 0)
          /\ ImportRecord(b, r)
    \/ \E b \in Boxes, q \in ReportQueries : ReportRecords(b, q)
    \/ \E ids \in BoxLists, ms \in MetricLists : ReportByMetric(ids, ms)
    \/ Respond

SpecReport == Init /\ [][NextReport]_vars

----------------------------------------------------------------------------
(* The calculator of the sensor service: applyInterpolation on a record,   *)
(* and the replacement of its curves and parameters                        *)

ApplyInterpolation(record) ==
    /\ Ready
    /\ resp' = [op |-> "applyInterpolation", record |-> record,
                out |-> applyInterpolation(calc, record)]
    /\ UNCHANGED <<db, calc, pending>>

\* A second application with the calculator as it is: to the raw record
\* once more, or to the record the first application returned.
ReapplyInterpolation(again) ==
    /\ resp.op = "applyInterpolation"
    /\ "first" \notin DOMAIN resp
    /\ LET input == IF again = "raw" THEN resp.record ELSE resp.out
       IN resp' = [op |-> "applyInterpolation", record |-> input,
                   out |-> applyInterpolation(calc, input),
                   first |-> resp.out, again |-> again]
    /\ UNCHANGED <<db, calc, pending>>

\* CalculateWaterIndex on a level: the volume curve read at wau.
WaterIndex(wau) ==
    /\ Ready
    /\ resp' = [op |-> "CalculateWaterIndex", wau |-> wau, v |-> CalculateWaterIndex(calc, wau)]
    /\ UNCHANGED <<db, calc, pending>>

\* A replacement that also recomputes V in the records already stored.
SetVolumeCurveRecomputing(points) ==
    /\ Ready
    /\ \E c \in NewCurve(points) :
          /\ calc' = [calc EXCEPT !.VolumeCurve = c]
          /\ db' = [b \in Boxes |->
                       {IF "WAU" \in DOMAIN d
                        THEN EncodeRecord(applyInterpolation(calc', DecodeRecord(d)))
                        ELSE d : d \in db[b]}]
    /\ resp' = [op |-> "SetVolumeCurve", points |-> points]
    /\ UNCHANGED pending

SetVolumeCurve(points) ==
    /\ Ready
    /\ \E c \in NewCurve(points) : calc' = [calc EXCEPT !.VolumeCurve = c]
    /\ resp' = [op |-> "SetVolumeCurve", points |-> points]
    /\ UNCHANGED <<db, pending>>

SetFlowCurve(points) ==
    /\ Ready
    /\ \E c \in NewCurve(points) : calc' = [calc EXCEPT !.FlowCurve = c]
    /\ resp' = [op |-> "SetFlowCurve", points |-> points]
    /\ UNCHANGED <<db, pending>>

SetOverflowParams(m, b) ==
    /\ Ready
    /\ calc' = [calc EXCEPT !.OverflowM = m, !.OverflowB = b]
    /\ resp' = [op |-> "SetOverflowParams", m |-> m, b |-> b]
    /\ UNCHANGED <<db, pending>>

\* Levels and discharges of every type GetFloat tells apart; Str(2) is the
\* text "2".
LevelValues ==
    {Float64(0), Float64((3 * Scale) \div 2), Float64(2 * Scale), Float64(-Scale),
     Int64(2 * Scale), GoInt(0), Int32(2 * Scale), Str(2)}

DischargeValues ==
    {Float64(Scale \div 2), Float64(0), Float64(-Scale), Int64(Scale), Int32(Scale)}

\* Records with or without WAU, DR and an earlier Q.
CalcInputs ==
    {[f \in {"_id"} \cup w \cup d \cup q |->
        CASE f = "_id" -> Int32(0)
          [] f = "WAU" -> wau
          [] f = "DR" -> dr
          [] OTHER -> Float64(7 * Scale)] :
        w \in SUBSET {"WAU"}, d \in SUBSET {"DR"}, q \in SUBSET {"Q"},
        wau \in LevelValues, dr \in DischargeValues}

CurveInputs ==
    {<<>>,
     <<Point(0, 0), Point(2 * Scale, 3 * Scale)>>,
     <<Point(2 * Scale, 3 * Scale), Point(0, Scale)>>,
     <<Point(Scale, Scale), Point(Scale, 2 * Scale), Point(2 * Scale, 4 * Scale)>>,
     <<Point(0, 0), Point(Scale, Scale \div 2), Point(2 * Scale, (12 * Scale) \div 10)>>,
     <<Point(Scale, 2 * Scale)>>,
     <<Point(0, 0), Point(2 * Scale, -(2 * Scale + 4680))>>}

OverflowInputs == {<<DefaultOverflowM, DefaultOverflowB>>, <<(4 * Scale) \div 10, 5 * Scale>>}

NextCalc ==
    \/ \E r \in CalcInputs : ApplyInterpolation(r)
    \/ \E again \in {"raw", "out"} : ReapplyInterpolation(again)
    \* Levels below, on, between and above the points of the curves.
    \/ \E wau \in {(n * Scale) \div 2 : n \in (-2)..12} : WaterIndex(wau)
    \/ \E points \in CurveInputs : SetVolumeCurve(points)
    \/ \E points \in CurveInputs : SetFlowCurve(points)
    \/ \E mb \in OverflowInputs : SetOverflowParams(mb[1], mb[2])
    \/ Respond

SpecCalc == Init /\ [][NextCalc]_vars

----------------------------------------------------------------------------
(* The calculator under concurrent use.  The sensor service holds one      *)
(* HydraulicCalculator; requests read it while a configuration call        *)
(* replaces a curve or the overflow parameters.  No lock, channel or       *)
(* atomic guards the fields, so each load and each store is a step of its  *)
(* own, and the stores of one goroutine may become visible to another in   *)
(* any order.  Client 1 configures; the other clients compute.             *)

Configurer == 1

Computers == Clients \ {Configurer}

\* A Curve as allocated, before Points is stored into it.
\* SetVolumeCurve / SetFlowCurve: NewCurve sorts the points and builds the
\* Curve, which is not yet visible to the computing goroutines.
SetCurveNewCurve(field, points) ==
    /\ ~pending[Configurer].busy
    /\ \E c \in NewCurve(points) :
          pending' = [pending EXCEPT ![Configurer] =
                         [busy |-> TRUE, op |-> "Set" \o field, field |-> field,
                          curve |-> c, stored |-> {}]]
    /\ UNCHANGED <<db, calc, resp>>

\* One of the two stores of the call becomes visible: "Points" is the store
\* of the slice into the new Curve, "ref" the store of the pointer into the
\* calculator.  With "ref" first the calculator points at a Curve whose
\* Points are still those of the allocation.
SetCurveStore(word) ==
    LET p == pending[Configurer]
    IN /\ p.busy
       /\ p.op \in {"SetVolumeCurve", "SetFlowCurve"}
       /\ word \notin p.stored
       /\ calc' = IF word = "ref"
                  THEN [calc EXCEPT ![p.field] =
                           IF "Points" \in p.stored
                           THEN p.curve
                           ELSE [IsNil |-> FALSE, Points |-> <<>>]]
                  ELSE IF "ref" \in p.stored
                  THEN [calc EXCEPT ![p.field] = p.curve]
                  ELSE calc
       /\ pending' = [pending EXCEPT ![Configurer] =
                         IF p.stored \cup {word} = {"Points", "ref"}
                         THEN Idle
                         ELSE [p EXCEPT !.stored = p.stored \cup {word}]]
       /\ UNCHANGED <<db, resp>>

\* SetOverflowParams, first statement: h.OverflowM = m.
SetOverflowParamsM(m, b) ==
    /\ ~pending[Configurer].busy
    /\ calc' = [calc EXCEPT !.OverflowM = m]
    /\ pending' = [pending EXCEPT ![Configurer] =
                      [busy |-> TRUE, op |-> "SetOverflowParams", m |-> m, b |-> b]]
    /\ UNCHANGED <<db, resp>>

\* SetOverflowParams, second statement: h.OverflowB = b.
SetOverflowParamsB ==
    /\ pending[Configurer].busy
    /\ pending[Configurer].op = "SetOverflowParams"
    /\ calc' = [calc EXCEPT !.OverflowB = pending[Configurer].b]
    /\ pending' = [pending EXCEPT ![Configurer] = Idle]
    /\ UNCHANGED <<db, resp>>

\* CalculateWaterIndex / CalculateWaterFlow: the call loads the curve
\* reference from the calculator and enters Interpolate, which sees the
\* Curve as it is visible at that moment.
InterpolateLoad(c, field, wau) ==
    /\ ~pending[c].busy
    /\ pending' = [pending EXCEPT ![c] =
                      [busy |-> TRUE, op |-> "Interpolate", field |-> field, wau |-> wau,
                       curve |-> calc[field]]]
    /\ UNCHANGED <<db, calc, resp>>

\* Interpolate returns, computed from the Curve the call holds.
InterpolateReturn(c) ==
    /\ pending[c].busy
    /\ pending[c].op = "Interpolate"
    /\ Ready
    /\ LET p == pending[c]
           h == [calc EXCEPT ![p.field] = p.curve]
       IN resp' = [op |-> "Interpolate", field |-> p.field, wau |-> p.wau,
                   v |-> IF p.field = "VolumeCurve"
                         THEN CalculateWaterIndex(h, p.wau)
                         ELSE CalculateWaterFlow(h, p.wau, Scale)]
    /\ pending' = [pending EXCEPT ![c] = Idle]
    /\ UNCHANGED <<db, calc>>

\* CalculateWaterOverFlow up to the load of h.OverflowM.
CalculateWaterOverFlowM(c, wau) ==
    /\ ~pending[c].busy
    /\ pending' = [pending EXCEPT ![c] =
                      [busy |-> TRUE, op |-> "CalculateWaterOverFlow", wau |-> wau,
                       m |-> calc.OverflowM]]
    /\ UNCHANGED <<db, calc, resp>>

\* CalculateWaterOverFlow from the load of h.OverflowB to the return.
CalculateWaterOverFlowB(c) ==
    /\ pending[c].busy
    /\ pending[c].op = "CalculateWaterOverFlow"
    /\ Ready
    /\ LET p == pending[c]
           h == [calc EXCEPT !.OverflowM = p.m]
       IN resp' = [op |-> "CalculateWaterOverFlow", wau |-> p.wau,
                   m |-> h.OverflowM, b |-> h.OverflowB,
                   v |-> CalculateWaterOverFlow(h, p.wau)]
    /\ pending' = [pending EXCEPT ![c] = Idle]
    /\ UNCHANGED <<db, calc>>

\* Two replacement curves, neither of which is 0 at level 1.
SwapCurves ==
    {<<Point(0, Scale), Point(2 * Scale, 3 * Scale)>>,
     <<Point(2 * Scale, 2 * Scale), Point(0, 4 * Scale)>>}

CurveFields == {"VolumeCurve", "FlowCurve"}

NextSwap ==
    \/ \E f \in CurveFields, points \in SwapCurves : SetCurveNewCurve(f, points)
    \/ \E word \in {"Points", "ref"} : SetCurveStore(word)
    \/ \E mb \in OverflowInputs : SetOverflowParamsM(mb[1], mb[2])
    \/ SetOverflowParamsB
    \/ \E c \in Computers, f \in CurveFields, wau \in {Scale} : InterpolateLoad(c, f, wau)
    \/ \E c \in Computers : InterpolateReturn(c)
    \/ \E c \in Computers, wau \in {Scale} : CalculateWaterOverFlowM(c, wau)
    \/ \E c \in Computers : CalculateWaterOverFlowB(c)
    \/ Respond

SpecSwap == Init /\ [][NextSwap]_vars

----------------------------------------------------------------------------
(* The operations of the sensor service side by side: ingest of readings   *)
(* that carry a level and a discharge, the queries and the daily report,   *)
(* and the replacement of the curves and the overflow parameters.          *)

\* A reading with level 1 and discharge 1, for which V, Q and Q_of are
\* derived at ingest.
LevelReading(k) ==
    [f \in {"_id", "WAU", "DR"} |-> IF f = "_id" THEN Int32(k) ELSE Float64(Scale)]

ReplacementCurve == <<Point(0, Scale), Point(2 * Scale, 3 * Scale)>>

\* The whole partition, with or without a range that covers every key.
WholeQueries == {NilQuery, Query(<<0, MaxKey>>, <<>>, <<>>)}

GroupLists == {<<b>> : b \in Boxes} \cup {<<1, 2>>}

NextStore ==
    \/ \E k \in Keys : ImportRecord(1, LevelReading(k))
    \/ SetVolumeCurve(ReplacementCurve)
    \/ SetFlowCurve(ReplacementCurve)
    \/ \E mb \in OverflowInputs : SetOverflowParams(mb[1], mb[2])
    \/ \E b \in Boxes, q \in WholeQueries : ListRecords(b, q)
    \/ \E b \in Boxes, q \in WholeQueries : CountRecords(b, q)
    \/ \E ids \in GroupLists, t \in {<<>>, <<0, MaxKey>>} :
          ListRecordsByGroup(ids, Query(t, <<0>>, <<>>))
    \/ \E ids \in GroupLists : ListRecordsLatestByGroup(ids)
    \/ \E b \in Boxes, q \in WholeQueries : ReportRecords(b, q)
    \/ Respond

SpecStore == Init /\ [][NextStore]_vars

----------------------------------------------------------------------------
(* The group queries on a store that may fail.  During one call the store  *)
(* cannot read the partitions in down; an Aggregate whose pipeline reads   *)
(* one of them, as its own collection or through $unionWith, returns an    *)
(* error.                                                                  *)

Down(boxIDs, down) == \E i \in DOMAIN boxIDs : boxIDs[i] \in down

\* The result of return nil, fmt.Errorf("aggregation failed: %w", err).
AggregationFailed(op, boxIDs, down) ==
    [op |-> op, boxIDs |-> boxIDs, down |-> down, err |-> "aggregation failed",
     Records |-> <<>>, Total |-> 0, calls |-> 1]

\* A ListRecordsByGroup that leaves the failing partitions out of its answer.
ListRecordsByGroupSkipping(boxIDs, query, down) ==
    /\ Ready
    /\ resp' \in {[op |-> "ListRecordsByGroup", boxIDs |-> boxIDs, down |-> down,
                    err |-> "", Records |-> r.Records, Total |-> r.Total, calls |-> 1] :
                       r \in GroupResults(SelectSeq(boxIDs, LAMBDA b : b \notin down), query)}
    /\ UNCHANGED <<db, calc, pending>>

ListRecordsByGroupOn(boxIDs, query, down) ==
    /\ Ready
    /\ resp' \in IF Len(boxIDs) = 0
                 THEN {[op |-> "ListRecordsByGroup", boxIDs |-> boxIDs, down |-> down,
                        err |-> "", Records |-> <<>>, Total |-> 0, calls |-> 0]}
                 ELSE IF Down(boxIDs, down)
                 THEN {AggregationFailed("ListRecordsByGroup", boxIDs, down)}
                 ELSE {[op |-> "ListRecordsByGroup", boxIDs |-> boxIDs, down |-> down,
                        err |-> "", Records |-> r.Records, Total |-> r.Total, calls |-> 1] :
                           r \in GroupResults(boxIDs, query)}
    /\ UNCHANGED <<db, calc, pending>>

ListRecordsLatestByGroupOn(boxIDs, down) ==
    /\ Ready
    /\ resp' \in IF Len(boxIDs) = 0
                 THEN {[op |-> "ListRecordsLatestByGroup", boxIDs |-> boxIDs, down |-> down,
                        err |-> "", Records |-> <<>>, Total |-> 0, calls |-> 0]}
                 ELSE IF Down(boxIDs, down)
                 THEN {AggregationFailed("ListRecordsLatestByGroup", boxIDs, down)}
                 ELSE {[op |-> "ListRecordsLatestByGroup", boxIDs |-> boxIDs, down |-> down,
                        err |-> "", Records |-> r.Records, Total |-> r.Total, calls |-> 1] :
                           r \in LatestResults(boxIDs)}
    /\ UNCHANGED <<db, calc, pending>>

NextFail ==
    \/ \E b \in Boxes, r \in StoreInputs : ImportRecord(b, r)
    \/ \E ids \in BoxLists, down \in SUBSET Boxes :
          ListRecordsByGroupOn(ids, Query(<<>>, <<0>>, <<MaxLimit>>), down)
    \/ \E ids \in BoxLists, down \in SUBSET Boxes : ListRecordsLatestByGroupOn(ids, down)
    \/ Respond

SpecFail == Init /\ [][NextFail]_vars

----------------------------------------------------------------------------
(* A client that reads a group page by page: ListRecordsByGroup with skip  *)
(* 0, limit, 2 * limit, ... until skip reaches the total.  Each page is a  *)
(* call of its own, with its own $sort; nothing is inserted while the      *)
(* client pages.                                                           *)

Pager == 1

\* The first page of a reading.
FirstPage(boxIDs, limit) ==
    /\ ~pending[Pager].busy
    /\ \E r \in GroupResults(boxIDs, Query(<<>>, <<0>>, <<limit>>)) :
          pending' = [pending EXCEPT ![Pager] =
                         [busy |-> TRUE, op |-> "pages", boxIDs |-> boxIDs, limit |-> limit,
                          skip |-> limit, got |-> r.Records, total |-> r.Total]]
    /\ UNCHANGED <<db, calc, resp>>

\* The page at the next skip.
NextPage ==
    LET p == pending[Pager]
    IN /\ p.busy
       /\ p.op = "pages"
       /\ p.skip < p.total
       /\ \E r \in GroupResults(p.boxIDs, Query(<<>>, <<p.skip>>, <<p.limit>>)) :
             pending' = [pending EXCEPT ![Pager] =
                            [p EXCEPT !.skip = p.skip + p.limit, !.got = p.got \o r.Records,
                                      !.total = r.Total]]
       /\ UNCHANGED <<db, calc, resp>>

\* The total is covered: the client has the records of all its pages.
LastPage ==
    LET p == pending[Pager]
    IN /\ p.busy
       /\ p.op = "pages"
       /\ p.skip >= p.total
       /\ Ready
       /\ resp' = [op |-> "pages", boxIDs |-> p.boxIDs, limit |-> p.limit,
                   Records |-> p.got, Total |-> p.total]
       /\ pending' = [pending EXCEPT ![Pager] = Idle]
       /\ UNCHANGED <<db, calc>>

NextPages ==
    \/ ~pending[Pager].busy /\ \E b \in Boxes, r \in StoreInputs : ImportRecord(b, r)
    \/ \E ids \in {<<1>>, <<1, 2>>}, limit \in 1..MaxLimit : FirstPage(ids, limit)
    \/ NextPage
    \/ LastPage
    \/ Respond

SpecPages == Init /\ [][NextPages]_vars

----------------------------------------------------------------------------
(* UserService: Login, RefreshToken and Logout on the sessions collection. *)
(* One user; each client is a request in its own goroutine, and a          *)
(* RefreshToken call is a sequence of store calls.  A token id is twelve   *)
(* random characters: every new id is one never issued before, here the    *)
(* next number.  An issued token is within its seven days.  db.issued and  *)
(* db.uses record the past for the properties: the number of ids issued    *)
(* and, for each id, the number of RefreshToken calls that succeeded with  *)
(* it.                                                                     *)

User == 1

TokenIDs == 1..MaxTokens

InitAuth ==
    /\ db = [sessions |-> {}, issued |-> 0, uses |-> [t \in TokenIDs |-> 0]]
    /\ calc \in NewHydraulicCalculator
    /\ pending = [c \in Clients |-> Idle]
    /\ resp = NoResp

\* domain.RefreshToken
RefreshTokenRecord(id, userID) == [ID |-> id, UserID |-> userID]

\* SaveRefreshToken of a record with a new id.
SaveRefreshToken(userID) ==
    [db EXCEPT !.sessions = @ \cup {RefreshTokenRecord(db.issued + 1, userID)},
               !.issued = @ + 1]

\* GetRefreshToken: the stored records of the id, none for ErrNoDocuments.
GetRefreshToken(token) == {rt \in db.sessions : rt.ID = token}

Login ==
    /\ Ready
    /\ db.issued < MaxTokens
    /\ db' = SaveRefreshToken(User)
    /\ resp' = [op |-> "Login", token |-> db.issued + 1, err |-> ""]
    /\ UNCHANGED <<calc, pending>>

\* RefreshToken up to the return of GetRefreshToken; the token is one that
\* was issued, so its signature and its subject are right.
RefreshTokenGet(c, token) ==
    /\ ~pending[c].busy
    /\ token <= db.issued
    /\ IF GetRefreshToken(token) = {}
       THEN /\ Ready
            /\ resp' = [op |-> "RefreshToken", token |-> token, err |-> "ErrInvalidRefreshToken"]
            /\ UNCHANGED pending
       ELSE /\ pending' = [pending EXCEPT ![c] =
                              [busy |-> TRUE, op |-> "RefreshToken", token |-> token,
                               rt |-> CHOOSE rt \in GetRefreshToken(token) : TRUE,
                               deleted |-> FALSE]]
            /\ UNCHANGED resp
    /\ UNCHANGED <<db, calc>>

\* _ = s.repo.DeleteRefreshToken(ctx, rt.ID): whatever DeleteOne reports is
\* dropped.
RefreshTokenDelete(c) ==
    /\ pending[c].busy
    /\ pending[c].op = "RefreshToken"
    /\ ~pending[c].deleted
    /\ db' = [db EXCEPT !.sessions = {rt \in @ : rt.ID # pending[c].rt.ID}]
    /\ pending' = [pending EXCEPT ![c].deleted = TRUE]
    /\ UNCHANGED <<calc, resp>>

\* SaveRefreshToken of the new record and the return of the new token.
RefreshTokenSave(c) ==
    /\ pending[c].busy
    /\ pending[c].op = "RefreshToken"
    /\ pending[c].deleted
    /\ Ready
    /\ db.issued < MaxTokens
    /\ db' = [SaveRefreshToken(pending[c].rt.UserID) EXCEPT !.uses[pending[c].token] = @ + 1]
    /\ resp' = [op |-> "RefreshToken", token |-> pending[c].token, new |-> db.issued + 1,
                err |-> ""]
    /\ pending' = [pending EXCEPT ![c] = Idle]
    /\ UNCHANGED calc

Logout ==
    /\ Ready
    /\ db' = [db EXCEPT !.sessions = {rt \in @ : rt.UserID # User}]
    /\ resp' = [op |-> "Logout", err |-> ""]
    /\ UNCHANGED <<calc, pending>>

NextAuth ==
    \/ Login
    \/ \E c \in Clients, token \in TokenIDs : RefreshTokenGet(c, token)
    \/ \E c \in Clients : RefreshTokenDelete(c)
    \/ \E c \in Clients : RefreshTokenSave(c)
    \/ Logout
    \/ Respond

SpecAuth == InitAuth /\ [][NextAuth]_vars

----------------------------------------------------------------------------
(* SensorService: CreateMetric, UpdateMetric and DeleteMetric on the       *)
(* metric collection.  A metric id is twelve random characters, here the   *)
(* next number; db.created counts the ids drawn.  CreateMetric looks the   *)
(* code up and inserts in two store calls, between which other requests    *)
(* run.                                                                    *)

Codes == {"T", "H"}

InitMetric ==
    /\ db = [metric |-> {}, created |-> 0]
    /\ calc \in NewHydraulicCalculator
    /\ pending = [c \in Clients |-> Idle]
    /\ resp = NoResp

\* domain.NewMetric; dtime is absent.
NewMetric(id, code) == [ID |-> id, Code |-> code, DTime |-> <<>>]

\* GetMetric: the metrics without dtime that the filter matches.
GetMetric(field, value) == {m \in db.metric : m.DTime = <<>> /\ m[field] = value}

\* CreateMetric of the service and of the repository up to the return of
\* GetMetric.
CreateMetricGet(c, code) ==
    /\ ~pending[c].busy
    /\ db.created < MaxMetrics
    /\ IF code = ""
       THEN /\ Ready
            /\ resp' = [op |-> "CreateMetric", err |-> "ErrMetricMustHaveCode"]
            /\ UNCHANGED <<db, pending>>
       ELSE /\ db' = [db EXCEPT !.created = @ + 1]
            /\ IF GetMetric("Code", code) # {}
               THEN /\ Ready
                    /\ resp' = [op |-> "CreateMetric", err |-> "ErrMetricCodeExisted"]
                    /\ UNCHANGED pending
               ELSE /\ pending' = [pending EXCEPT ![c] =
                                      [busy |-> TRUE, op |-> "CreateMetric",
                                       metric |-> NewMetric(db.created + 1, code)]]
                    /\ UNCHANGED resp
    /\ UNCHANGED calc

\* CreateMetric: InsertOne and the return.
CreateMetricInsertOne(c) ==
    /\ pending[c].busy
    /\ pending[c].op = "CreateMetric"
    /\ Ready
    /\ db' = [db EXCEPT !.metric = @ \cup {pending[c].metric}]
    /\ resp' = [op |-> "CreateMetric", err |-> "", metric |-> pending[c].metric]
    /\ pending' = [pending EXCEPT ![c] = Idle]
    /\ UNCHANGED calc

\* UpdateMetric: code is <<>> for params.Code == nil.
UpdateMetric(id, code) ==
    /\ Ready
    /\ IF GetMetric("ID", id) = {}
       THEN /\ resp' = [op |-> "UpdateMetric", err |-> "ErrMetricNotFound"]
            /\ UNCHANGED db
       ELSE LET metric == CHOOSE m \in GetMetric("ID", id) : TRUE
                new == IF code = <<>> THEN metric ELSE [metric EXCEPT !.Code = code[1]]
            IN /\ db' = [db EXCEPT !.metric = (@ \ {metric}) \cup {new}]
               /\ resp' = [op |-> "UpdateMetric", err |-> "", metric |-> new]
    /\ UNCHANGED <<calc, pending>>

DeleteMetric(id) ==
    /\ Ready
    /\ IF GetMetric("ID", id) = {}
       THEN /\ resp' = [op |-> "DeleteMetric", err |-> "ErrMetricNotFound"]
            /\ UNCHANGED db
       ELSE LET metric == CHOOSE m \in GetMetric("ID", id) : TRUE
            IN /\ \E now \in NowMillis :
                     db' = [db EXCEPT !.metric =
                               (@ \ {metric}) \cup {[metric EXCEPT !.DTime = <<now>>]}]
               /\ resp' = [op |-> "DeleteMetric", err |-> "", metric |-> metric]
    /\ UNCHANGED <<calc, pending>>

NextMetric ==
    \/ \E c \in Clients, code \in Codes \cup {""} : CreateMetricGet(c, code)
    \/ \E c \in Clients : CreateMetricInsertOne(c)
    \/ \E id \in 1..MaxMetrics, code \in {<<>>} \cup {<<k>> : k \in Codes} : UpdateMetric(id, code)
    \/ \E id \in 1..MaxMetrics : DeleteMetric(id)
    \/ Respond

SpecMetric == InitMetric /\ [][NextMetric]_vars

----------------------------------------------------------------------------
(* Curve.Interpolate, return by return.  The argument is a float64: a      *)
(* number, or NaN, with which every comparison is false.                   *)

\* An Interpolate without the test of x against the first point.
InterpolateExitUnclamped(c, x) ==
    LET pts == c.Points
        n == Len(pts)
        i == IF x.nan THEN 0 ELSE FirstSegment(pts, x.v, 1)
    IN IF n = 0 THEN [at |-> "empty", den |-> 1]
       ELSE IF n = 1 THEN [at |-> "single", den |-> 1]
       ELSE IF ~x.nan /\ x.v >= pts[n].X THEN [at |-> "last", den |-> 1]
       ELSE IF i = 0 THEN [at |-> "fallback", den |-> 1]
       ELSE [at |-> "segment", den |-> pts[i + 1].X - pts[i].X]

\* The return statement at which Interpolate(x) leaves, and the divisor
\* x2 - x1 of the formula where it is evaluated.
InterpolateExit(c, x) ==
    LET pts == c.Points
        n == Len(pts)
        i == IF x.nan THEN 0 ELSE FirstSegment(pts, x.v, 1)
    IN IF n = 0 THEN [at |-> "empty", den |-> 1]
       ELSE IF n = 1 THEN [at |-> "single", den |-> 1]
       ELSE IF ~x.nan /\ x.v <= pts[1].X THEN [at |-> "first", den |-> 1]
       ELSE IF ~x.nan /\ x.v >= pts[n].X THEN [at |-> "last", den |-> 1]
       ELSE IF i = 0 THEN [at |-> "fallback", den |-> 1]
       ELSE [at |-> "segment", den |-> pts[i + 1].X - pts[i].X]

InterpolateAt(x) ==
    /\ Ready
    /\ resp' = [op |-> "Interpolate", x |-> x, curve |-> calc.VolumeCurve,
                exit |-> InterpolateExit(calc.VolumeCurve, x)]
    /\ UNCHANGED <<db, calc, pending>>

\* Every list of at most MaxPoints points over three levels, in any order
\* and with levels repeated.
PointLists ==
    UNION {[1..n -> {Point(x * Scale, (x + 1) * Scale) : x \in 0..2}] : n \in 0..MaxPoints}

\* Levels below, on, between and above the points, and NaN.
XInputs ==
    {[nan |-> FALSE, v |-> (n * Scale) \div 2] : n \in (-1)..5} \cup {[nan |-> TRUE, v |-> 0]}

NextCurve ==
    \/ \E points \in PointLists : SetVolumeCurve(points)
    \/ \E x \in XInputs : InterpolateAt(x)
    \/ Respond

SpecCurve == Init /\ [][NextCurve]_vars

----------------------------------------------------------------------------
(* Properties *)

KeyOf(d) == d["_id"].v

InRange(d, q) ==
    \/ q.IsNil
    \/ Len(q.Time) # 2
    \/ (q.Time[1] <= KeyOf(d) /\ KeyOf(d) <= q.Time[2])

Matching(b, q) == {d \in db[b] : InRange(d, q)}

Max2(a, b) == IF a > b THEN a ELSE b

WantedSkip(q) == IF q.Skip = <<>> THEN 0 ELSE q.Skip[1]

WantedLimit(q) == IF q.Limit = <<>> THEN 20 ELSE q.Limit[1]

\* The record a query returns for the stored document d: id in place of _id.
Returned(d) ==
    [f \in (DOMAIN d \ {"_id"}) \cup {"id"} |->
        LET val == IF f = "id" THEN d["_id"] ELSE d[f]
        IN [ty |-> IF val.ty = "double" THEN "float64" ELSE val.ty, v |-> val.v]]

Untagged(r) == [f \in DOMAIN r \ {"box_id"} |-> r[f]]

RECURSIVE SumMatching(_, _, _)
SumMatching(ids, q, i) ==
    IF i > Len(ids) THEN 0
    ELSE Cardinality(Matching(ids[i], q)) + SumMatching(ids, q, i + 1)

DupKeyErr == "E11000 duplicate key"

NoTwoSameKey ==
    \A b \in Boxes : \A d, e \in db[b] : KeyOf(d) = KeyOf(e) => d = e

StoredStay == \A b \in Boxes : db[b] \subseteq db'[b]

InsertOutcome ==
    (resp.op = "none" /\ resp'.op \in {"AddRecord", "ImportRecord"}) =>
        LET b == resp'.boxID
            doc == resp'.doc
        IN IF \E d \in db[b] : KeyOf(d) = KeyOf(doc)
           THEN resp'.err = DupKeyErr /\ db' = db
           ELSE resp'.err = "" /\ db' = [db EXCEPT ![b] = db[b] \cup {doc}]

C2_MergedPage ==
    resp.op = "ListRecordsByGroup" =>
        LET ids == resp.boxIDs
            q == resp.query
            R == resp.Records
            all == {<<ids[i], d>> : i \in 1..Len(ids), d \in UNION {db[b] : b \in Boxes}}
            merged == {p \in all : p[2] \in Matching(p[1], q)}
            n == Cardinality(merged)
        IN /\ resp.err = ""
           /\ resp.Total = SumMatching(ids, q, 1)
           /\ resp.Total = n
           /\ Len(R) = Max2(0, Min2(WantedLimit(q), n - WantedSkip(q)))
           /\ \A i \in 1..Len(R) :
                /\ \E p \in merged : Untagged(R[i]) = Returned(p[2])
                /\ Cardinality({p \in merged : KeyOf(p[2]) > R[i]["id"].v})
                      <= WantedSkip(q) + i - 1
                /\ Cardinality({p \in merged : KeyOf(p[2]) >= R[i]["id"].v})
                      >= WantedSkip(q) + i
                /\ \A j \in 1..Len(R) : i # j => R[i] # R[j]

\* A page cut from the middle of the merge of two partitions, with records
\* of both partitions on it and records left before and after it.
C2_Witness ==
    /\ resp.op = "ListRecordsByGroup"
    /\ Len(resp.boxIDs) >= 2
    /\ resp.query.Skip = <<1>>
    /\ Len(resp.Records) = 2
    /\ resp.Total > 3
    /\ resp.Records[1]["box_id"] # resp.Records[2]["box_id"]

\* C3: ListRecords returns positions skip+1 .. skip+limit (0 and 20 unless
\* given) of the partition's records with start <= key <= end (all of them
\* without a range) in descending key order, and total is the number of
\* records in the range.
C3_RangePage ==
    resp.op = "ListRecords" =>
        LET q == resp.query
            R == resp.Records
            M == Matching(resp.boxID, q)
            n == Cardinality(M)
        IN /\ resp.err = ""
           /\ resp.Total = n
           /\ Len(R) = Max2(0, Min2(WantedLimit(q), n - WantedSkip(q)))
           /\ \A i \in 1..Len(R) :
                \E d \in M :
                    /\ R[i] = Returned(d)
                    /\ Cardinality({e \in M : KeyOf(e) > KeyOf(d)}) = WantedSkip(q) + i - 1

\* A ranged query without a limit on a partition of more than 20 matching
\* records, one of them skipped.
C3_Witness ==
    /\ resp.op = "ListRecords"
    /\ HasRange(resp.query)
    /\ resp.query.Skip = <<1>>
    /\ resp.query.Limit = <<>>
    /\ resp.Total > 21
    /\ Len(resp.Records) = 20
    /\ resp.Total < Cardinality(db[resp.boxID])

\* C4: ListRecordsLatestByGroup returns exactly one record for each listed
\* partition that holds records, the one of the greatest key, none for an
\* empty partition, in descending key order, and total is their number.
C4_LatestPerPartition ==
    resp.op = "ListRecordsLatestByGroup" =>
        LET ids == resp.boxIDs
            R == resp.Records
            full == {i \in 1..Len(ids) : db[ids[i]] # {}}
        IN /\ resp.err = ""
           /\ Len(R) = Cardinality(full)
           /\ resp.Total = Cardinality(full)
           /\ \A i \in full :
                \E j \in 1..Len(R) :
                    /\ R[j]["box_id"].v = ids[i]
                    /\ \E d \in db[ids[i]] :
                          /\ Untagged(R[j]) = Returned(d)
                          /\ \A e \in db[ids[i]] : KeyOf(e) <= KeyOf(d)
           /\ \A j, k \in 1..Len(R) : j < k => R[j]["id"].v >= R[k]["id"].v

\* Two listed partitions hold records, one of them two, and their latest
\* keys differ.
C4_Witness ==
    /\ resp.op = "ListRecordsLatestByGroup"
    /\ Len(resp.boxIDs) = 2
    /\ resp.Total = 2
    /\ resp.Records[1]["id"].v > resp.Records[2]["id"].v
    /\ \E b \in Boxes : Cardinality(db[b]) >= 2

----------------------------------------------------------------------------
(* The reports *)

\* The stored documents of S in which field k holds a number.
NumericIn(S, k) ==
    {d \in S : k \in DOMAIN d /\ d[k].ty \in {"double", "int32", "int64"}}

OnDate(S, dt) == {d \in S : DateOf(KeyOf(d)) = dt}

\* The stored documents of box b that carry a month, and those of one month.
InMonth(b, y, m) ==
    {d \in db[b] : "t" \in DOMAIN d /\ d["t"].ty # "string"
                   /\ DateOf(d["t"].v)[1] = y /\ DateOf(d["t"].v)[2] = m}

\* The (source, year, month, metric) combinations of a monthly report with
\* at least one numeric occurrence of the metric.
Combinations(sources, metrics) ==
    {c \in (DOMAIN sources) \X {1970} \X (1..12) \X (DOMAIN metrics) :
        /\ ~AggregateFails(db[sources[c[1]]])
        /\ NumericIn(InMonth(sources[c[1]], c[2], c[3]), metrics[c[4]]) # {}}

\* C5: a daily report holds exactly one row for each UTC date on which a
\* record of the partition with key in the range falls, the rows ascend by
\* date, and each row counts the matching records of its date.
C5_DailyRows ==
    resp.op = "ReportRecords" =>
        LET m == Matching(resp.boxID, resp.query)
            dates == {DateOf(KeyOf(d)) : d \in m}
            rows == resp.reports
        IN /\ ~resp.panic
           /\ Len(rows) = Cardinality(dates)
           /\ \A i \in DOMAIN rows :
                /\ rows[i].Date \in dates
                /\ rows[i].Count = Cardinality(OnDate(m, rows[i].Date))
           /\ \A i, j \in DOMAIN rows : i < j => DateBefore(rows[i].Date, rows[j].Date)

\* C6: in the row of each date, every field other than _id and c that is
\* numeric (integer or real) in k >= 1 records of the date has
\* avg = round2(sum / k), min and max over exactly those k values.
C6_DailyStatistics ==
    resp.op = "ReportRecords" =>
        LET m == Matching(resp.boxID, resp.query)
        IN \A d \in m : \A k \in DOMAIN d \ {"_id", "c"} :
              LET items == NumericIn(OnDate(m, DateOf(KeyOf(d))), k)
                  vals == {r[k].v : r \in items}
              IN items # {} =>
                   \E i \in DOMAIN resp.reports :
                      LET row == resp.reports[i]
                      IN /\ row.Date = DateOf(KeyOf(d))
                         /\ k \in DOMAIN row.Avg /\ k \in DOMAIN row.Min /\ k \in DOMAIN row.Max
                         /\ row.Avg[k] = RoundValueQ(SumOf(items, k), Cardinality(items))
                         /\ \A v \in vals : row.Min[k] <= v /\ v <= row.Max[k]
                         /\ row.Min[k] \in vals /\ row.Max[k] \in vals

\* C7: a monthly report holds exactly one row for each (partition, year,
\* month, requested metric) with at least one numeric occurrence, and rows
\* of different partitions stay separate.
C7_MonthlyRows ==
    resp.op = "ReportByMetric" =>
        LET combos == Combinations(resp.sources, resp.metrics)
            rows == resp.reports
        IN /\ Len(rows) = Cardinality(combos)
           /\ \A c \in combos :
                Cardinality({i \in DOMAIN rows :
                                rows[i].Info = [Year |-> c[2], Month |-> c[3],
                                                Metric |-> resp.metrics[c[4]]]})
                  = Cardinality({e \in combos : e[2] = c[2] /\ e[3] = c[3] /\ e[4] = c[4]})

\* C8: the row of each (partition, year, month, metric) carries the rounded
\* sum of the metric's numeric occurrences as its total and their number as
\* its count.
C8_MonthlyTotals ==
    resp.op = "ReportByMetric" =>
        \A c \in Combinations(resp.sources, resp.metrics) :
            LET metric == resp.metrics[c[4]]
                items == NumericIn(InMonth(resp.sources[c[1]], c[2], c[3]), metric)
            IN \E i \in DOMAIN resp.reports :
                  /\ resp.reports[i].Info = [Year |-> c[2], Month |-> c[3], Metric |-> metric]
                  /\ resp.reports[i].Total = RoundValue(SumOf(items, metric))
                  /\ resp.reports[i].Count = Cardinality(items)

----------------------------------------------------------------------------
(* The derived metrics *)

\* The level and the discharge of a record, as GetFloat reads them.
LevelOf(record) == GetFloat(record, "WAU")

DischargeOf(record) == GetFloat(record, "DR")

\* Field k of the output is what it was in the input.
Kept(k) ==
    /\ (k \in DOMAIN resp.out) = (k \in DOMAIN resp.record)
    /\ k \in DOMAIN resp.record => resp.out[k] = resp.record[k]

Round2(q) == Float64(RoundValueQ(q[1], q[2]))

\* D * sqrt(2 * g * L), rounded.
FlowFormula(L, D) == Float64(RoundValue(Mul(D, Sqrt(Mul(Mul(2 * Scale, calc.OverflowG), L)))))

\* C9: a record whose level is absent or exactly zero comes back with the
\* same fields and values.
C9_ZeroLevelUnchanged ==
    (/\ resp.op = "applyInterpolation"
     /\ ("WAU" \notin DOMAIN resp.record \/ resp.record["WAU"].v = 0))
    => resp.out = resp.record

C9_Witness ==
    /\ resp.op = "applyInterpolation"
    /\ "WAU" \in DOMAIN resp.record /\ resp.record["WAU"] = Float64(0)
    /\ "DR" \in DOMAIN resp.record /\ resp.record["DR"].v > 0
    /\ resp.out = resp.record

\* C10 as stated: for L # 0, V is the rounded volume, Q is written exactly
\* when D > 0, and is the rounded flow-curve value if a flow curve is set
\* and the rounded D * sqrt(2 * g * L), a real number, otherwise.
C10_FlowAsStated ==
    (resp.op = "applyInterpolation" /\ LevelOf(resp.record) # 0) =>
        LET L == LevelOf(resp.record)
            D == DischargeOf(resp.record)
        IN /\ "V" \in DOMAIN resp.out
           /\ resp.out["V"] = Round2(Interpolate(calc.VolumeCurve, L))
           /\ D <= 0 => Kept("Q")
           /\ D > 0 =>
                /\ "Q" \in DOMAIN resp.out
                /\ IF ~calc.FlowCurve.IsNil
                   THEN resp.out["Q"] = Round2(Interpolate(calc.FlowCurve, L))
                   ELSE L >= 0 /\ resp.out["Q"] = FlowFormula(L, D)

\* C10: for L # 0 (L and D as GetFloat reads them), V is the rounded volume,
\* Q is written exactly when D > 0, and is the rounded flow-curve value if
\* a flow curve is set, else the rounded D * sqrt(2 * g * L) for L > 0 and 0
\* for L < 0.
C10_Flow ==
    (resp.op = "applyInterpolation" /\ LevelOf(resp.record) # 0) =>
        LET L == LevelOf(resp.record)
            D == DischargeOf(resp.record)
        IN /\ "V" \in DOMAIN resp.out
           /\ resp.out["V"] = Round2(Interpolate(calc.VolumeCurve, L))
           /\ D <= 0 => Kept("Q")
           /\ D > 0 =>
                /\ "Q" \in DOMAIN resp.out
                /\ resp.out["Q"] =
                     IF ~calc.FlowCurve.IsNil THEN Round2(Interpolate(calc.FlowCurve, L))
                     ELSE IF L > 0 THEN FlowFormula(L, D)
                     ELSE Float64(0)

C10_Witness ==
    /\ resp.op = "applyInterpolation"
    /\ LevelOf(resp.record) < 0
    /\ DischargeOf(resp.record) > 0
    /\ calc.FlowCurve.IsNil
    /\ resp.out["Q"] = Float64(0)

\* m * B * sqrt(2 * g) * L^1.5 for L > 0, with the root taken once.
OverflowFormula(L) ==
    Mul(Mul(calc.OverflowM, calc.OverflowB),
        Sqrt(Mul(Mul(2 * Scale, calc.OverflowG), Mul(Mul(L, L), L))))

\* The calculator has the parameters of the example and the level is 2.
OverflowExample ==
    /\ resp.op = "applyInterpolation"
    /\ LevelOf(resp.record) = 2 * Scale
    /\ calc.OverflowM = (49 * Scale) \div 100
    /\ calc.OverflowB = 10 * Scale
    /\ calc.OverflowG = (981 * Scale) \div 100

\* For L # 0 the overflow written to Q_of is the rounded formula for L > 0
\* and 0 for L < 0.
OverflowLaw ==
    (resp.op = "applyInterpolation" /\ LevelOf(resp.record) # 0) =>
        /\ "Q_of" \in DOMAIN resp.out
        /\ resp.out["Q_of"] = IF LevelOf(resp.record) > 0
                              THEN Float64(RoundValue(OverflowFormula(LevelOf(resp.record))))
                              ELSE Float64(0)

\* C11 as stated: the overflow law, and with m = 0.49, B = 10, g = 9.81 and
\* L = 2 the value written to Q_of is 61.30.
C11_OverflowAsStated ==
    /\ OverflowLaw
    /\ OverflowExample => resp.out["Q_of"] = Float64((6130 * Scale) \div 100)

\* C11: the overflow law, and with m = 0.49, B = 10, g = 9.81 and L = 2 the
\* value written to Q_of is 61.39.
C11_Overflow ==
    /\ OverflowLaw
    /\ OverflowExample => resp.out["Q_of"] = Float64((6139 * Scale) \div 100)

C11_Witness ==
    /\ OverflowExample
    /\ resp.out["Q_of"] = Float64((6139 * Scale) \div 100)

\* The derived fields of two records agree: each is absent in both or has
\* the same value in both.
SameDerived(r1, r2) ==
    \A k \in {"V", "Q", "Q_of"} :
        /\ (k \in DOMAIN r1) = (k \in DOMAIN r2)
        /\ k \in DOMAIN r1 => r1[k] = r2[k]

\* C12: with the calculator unchanged, a second application to the same raw
\* record gives the same V, Q and Q_of, and an application to the output of
\* the first returns that output unchanged.
C12_Idempotent ==
    (resp.op = "applyInterpolation" /\ "first" \in DOMAIN resp) =>
        /\ resp.again = "raw" => SameDerived(resp.out, resp.first)
        /\ resp.again = "out" => resp.out = resp.first

C12_Witness ==
    /\ resp.op = "applyInterpolation" /\ "first" \in DOMAIN resp
    /\ resp.again = "out"
    /\ LevelOf(resp.record) # 0 /\ DischargeOf(resp.record) > 0
    /\ "Q" \in DOMAIN resp.out /\ resp.out = resp.first

----------------------------------------------------------------------------
(* Interpolation *)

\* The points of the volume curve, and the curve of the example.
VolumePoints == calc.VolumeCurve.Points

ExampleCurve == <<Point(0, 0), Point(Scale, Scale \div 2), Point(2 * Scale, (12 * Scale) \div 10)>>

\* The rational q = <<num, den>> is the number y1 + (x - x1) * (y2 - y1) / (x2 - x1).
OnSegment(q, p1, p2, x) ==
    /\ p1.X < p2.X
    /\ q[2] = p2.X - p1.X
    /\ q[1] = p1.Y * (p2.X - p1.X) + (x - p1.X) * (p2.Y - p1.Y)

\* The rational q lies between a and b, ends included.
Between(q, a, b) ==
    /\ q[2] > 0
    /\ Min2(a, b) * q[2] <= q[1]
    /\ q[1] <= Max2(a, b) * q[2]

\* C13: on a curve of at least two points and for x strictly between the
\* first and the last X, the result is the linear interpolation on a segment
\* of consecutive points that brackets x and lies between the segment's Y
\* values; on the points (0,0), (1,0.5), (2,1.2) the result for 1.5 is 0.85.
C13_Interior ==
    (/\ resp.op = "CalculateWaterIndex"
     /\ Len(VolumePoints) >= 2
     /\ VolumePoints[1].X < resp.wau
     /\ resp.wau < VolumePoints[Len(VolumePoints)].X)
    => /\ \E i \in 1..(Len(VolumePoints) - 1) :
            /\ VolumePoints[i].X <= resp.wau /\ resp.wau <= VolumePoints[i + 1].X
            /\ OnSegment(resp.v, VolumePoints[i], VolumePoints[i + 1], resp.wau)
            /\ Between(resp.v, VolumePoints[i].Y, VolumePoints[i + 1].Y)
       /\ (VolumePoints = ExampleCurve /\ resp.wau = (3 * Scale) \div 2)
            => resp.v[1] = ((85 * Scale) \div 100) * resp.v[2]

C13_Witness ==
    /\ resp.op = "CalculateWaterIndex"
    /\ VolumePoints = ExampleCurve
    /\ resp.wau = (3 * Scale) \div 2
    /\ resp.v[1] = ((85 * Scale) \div 100) * resp.v[2]

----------------------------------------------------------------------------
(* Rounding *)

\* The multiple of 0.01 nearest to num / den, a tie going up:
\* floor(value * 100 + 0.5) / 100.
HalfUp(q) ==
    Float64((Scale \div 100) * ((q[1] + (Scale \div 200) * q[2]) \div ((Scale \div 100) * q[2])))

\* C15: every derived value written (V, Q, Q_of) is its exact value rounded
\* half up to two decimals, negative values included.
C15_HalfUp ==
    (resp.op = "applyInterpolation" /\ LevelOf(resp.record) # 0) =>
        LET L == LevelOf(resp.record)
            D == DischargeOf(resp.record)
        IN /\ resp.out["V"] = HalfUp(CalculateWaterIndex(calc, L))
           /\ D > 0 => resp.out["Q"] = HalfUp(CalculateWaterFlow(calc, L, D))
           /\ resp.out["Q_of"] = HalfUp(CalculateWaterOverFlow(calc, L))

----------------------------------------------------------------------------
(* The ingest time *)

\* The stored value of a Go value: the same number under its BSON type.
StoredAs(val) ==
    [ty |-> IF val.ty = "float64" THEN "double" ELSE IF val.ty = "int" THEN "int32" ELSE val.ty,
     v |-> val.v]

\* C16: the document handed to the store has every field of the record
\* passed to the repository with its value, c included when the record
\* carries one, and c set to the current time only when it carries none; a
\* successful insert persists exactly that document.
C16_IngestTime ==
    resp.op \in {"AddRecord", "ImportRecord"} =>
        LET passed == applyInterpolation(calc, resp.record)
            doc == resp.doc
        IN /\ DOMAIN doc = DOMAIN passed \cup {"c"}
           /\ \A f \in DOMAIN passed : doc[f] = StoredAs(passed[f])
           /\ "c" \notin DOMAIN passed => doc["c"] \in {Int64(now) : now \in NowMillis}
           /\ resp.err = "" => doc \in db[resp.boxID]

C16_Witness ==
    /\ resp.op = "ImportRecord"
    /\ resp.err = ""
    /\ "c" \in DOMAIN resp.record
    /\ resp.doc["c"] = resp.record["c"]
    /\ resp.doc["c"].v \notin NowMillis
    /\ resp.doc \in db[resp.boxID]

----------------------------------------------------------------------------
(* Counting *)

\* The paged queries over the range of q, for every skip and limit.
PagedOver(q) ==
    IF q.IsNil THEN {NilQuery}
    ELSE {Query(q.Time, sk, l) : sk \in {<<>>} \cup {<<n>> : n \in 0..MaxSkip},
                                 l \in {<<>>} \cup {<<n>> : n \in 1..MaxLimit}}

\* C17: the total of a paged query is what the count over its range gives in
\* the same store state, and a count is the total of every paged query over
\* its range, whatever the skip and the limit.
C17_CountIsTotal ==
    /\ resp.op = "ListRecords" =>
          resp.Total = CountDocuments(db[resp.boxID], resp.query)
    /\ resp.op = "CountRecords" =>
          \A q \in PagedOver(resp.query) :
              ListRecordsResult(resp.boxID, q).Total = resp.Total

C17_Witness ==
    /\ resp.op = "CountRecords"
    /\ HasRange(resp.query)
    /\ resp.Total > 0
    /\ resp.Total < Cardinality(db[resp.boxID])
    /\ \A q \in PagedOver(resp.query) : ListRecordsResult(resp.boxID, q).Total = resp.Total

----------------------------------------------------------------------------
(* Ranges *)

\* The query carries a range whose start is greater than its end.
Inverted(q) == HasRange(q) /\ q.Time[1] > q.Time[2]

\* C18: a query over a range with start > end fails with InvalidRange.
C18_InvalidRange ==
    (/\ resp.op \in {"ListRecords", "CountRecords", "ListRecordsByGroup", "ReportRecords"}
     /\ Inverted(resp.query))
    => ("err" \in DOMAIN resp /\ resp.err = "InvalidRange")

----------------------------------------------------------------------------
(* Tags *)

\* C19: every record a group query returns carries the box_id of a listed
\* partition that stores it, and no two returned records stand for the same
\* stored record, wherever the partition is in the list.
C19_TaggedWithPartition ==
    resp.op \in {"ListRecordsByGroup", "ListRecordsLatestByGroup"} =>
        LET rows == resp.Records
        IN /\ \A i \in DOMAIN rows :
                /\ "box_id" \in DOMAIN rows[i]
                /\ rows[i]["box_id"].ty = "string"
                /\ \E n \in DOMAIN resp.boxIDs :
                      /\ rows[i]["box_id"].v = resp.boxIDs[n]
                      /\ \E d \in db[resp.boxIDs[n]] : Returned(d) = Untagged(rows[i])
           /\ \A i, j \in DOMAIN rows :
                (i # j /\ rows[i]["id"] = rows[j]["id"])
                    => rows[i]["box_id"] # rows[j]["box_id"]

\* Two records of one key, one from the first and one from the second
\* partition of the list, each under its own tag.
C19_Witness ==
    /\ resp.op = "ListRecordsByGroup"
    /\ Len(resp.boxIDs) = 2
    /\ \E i, j \in DOMAIN resp.Records :
          /\ resp.Records[i]["id"] = resp.Records[j]["id"]
          /\ resp.Records[i]["box_id"].v = resp.boxIDs[1]
          /\ resp.Records[j]["box_id"].v = resp.boxIDs[2]

----------------------------------------------------------------------------
(* The empty group *)

\* C20: a group query over an empty list of partitions returns no record
\* and total 0 without an error, and makes no call on the store.
C20_EmptyList ==
    (/\ resp.op \in {"ListRecordsByGroup", "ListRecordsLatestByGroup"}
     /\ resp.boxIDs = <<>>)
    => /\ resp.Records = <<>>
       /\ resp.Total = 0
       /\ resp.err = ""
       /\ resp.calls = 0

C20_Witness ==
    /\ resp.op = "ListRecordsByGroup"
    /\ resp.boxIDs = <<>>
    /\ \E b \in Boxes : db[b] # {}
    /\ resp.Records = <<>> /\ resp.calls = 0

----------------------------------------------------------------------------
\* Every curve a field of the calculator is ever given: the one of the
\* construction (no flow curve at first) and the ones the Set calls build.
CurveVersions(field) ==
    (IF field = "VolumeCurve" THEN NewCurve(DefaultVolumePoints) ELSE {NilCurve})
        \cup UNION {NewCurve(points) : points \in SwapCurves}

\* C21: an Interpolate call that runs while SetVolumeCurve or SetFlowCurve
\* replaces the curve computes its result from one version of the curve,
\* never from a partially built one: what it returns is what one of the
\* versions gives at its level.
C21_OneVersion ==
    resp.op = "Interpolate" =>
        \E cv \in CurveVersions(resp.field) :
            LET h == [calc EXCEPT ![resp.field] = cv]
            IN resp.v = IF resp.field = "VolumeCurve"
                        THEN CalculateWaterIndex(h, resp.wau)
                        ELSE CalculateWaterFlow(h, resp.wau, Scale)

\* C22: an overflow computed while SetOverflowParams runs uses the
\* coefficient and the width of one pair, the old one or the new one.
C22_OnePair ==
    resp.op = "CalculateWaterOverFlow" => <<resp.m, resp.b>> \in OverflowInputs

----------------------------------------------------------------------------
\* The V the calculator as it is now would derive for a stored record.
VNow(d) ==
    LET v == CalculateWaterIndex(calc, d["WAU"].v)
    IN RoundValueQ(v[1], v[2])

\* C23: every stored record stays in its partition, field for field, through
\* every later ingest, query, report and replacement of a curve or of the
\* parameters; its V, Q and Q_of remain those of its ingest.
C23_Immutable == [][StoredStay]_vars

\* A record is stored whose V was derived from the curve before the
\* replacement, and a query has just run over it.
C23_Witness ==
    /\ resp.op = "ListRecords"
    /\ \E d \in db[1] : d["V"].v # VNow(d)

----------------------------------------------------------------------------
\* The answer of a list, count, group or latest query holds every record
\* that is stored at the time of the query.
QueriesReflect ==
    /\ resp.op = "ListRecords" =>
          /\ resp.Total = Cardinality(db[resp.boxID])
          /\ \A d \in db[resp.boxID] : \E i \in DOMAIN resp.Records : resp.Records[i] = Returned(d)
    /\ resp.op = "CountRecords" => resp.Total = Cardinality(db[resp.boxID])
    /\ resp.op = "ListRecordsByGroup" =>
          /\ resp.Total = SumMatching(resp.boxIDs, NilQuery, 1)
          /\ \A i \in DOMAIN resp.boxIDs : \A d \in db[resp.boxIDs[i]] :
                \E j \in DOMAIN resp.Records :
                    /\ resp.Records[j]["box_id"].v = resp.boxIDs[i]
                    /\ Untagged(resp.Records[j]) = Returned(d)
    /\ resp.op = "ListRecordsLatestByGroup" =>
          \A i \in DOMAIN resp.boxIDs : \A d \in db[resp.boxIDs[i]] :
                \E j \in DOMAIN resp.Records :
                    /\ resp.Records[j]["box_id"].v = resp.boxIDs[i]
                    /\ resp.Records[j]["id"].v >= KeyOf(d)

\* The daily report counts every record that is stored at the time of the
\* report.
ReportReflects ==
    resp.op = "ReportRecords" =>
        /\ ~resp.panic
        /\ \A d \in db[resp.boxID] :
              \E i \in DOMAIN resp.reports :
                  /\ resp.reports[i].Date = DateOf(KeyOf(d))
                  /\ resp.reports[i].Count = Cardinality(OnDate(db[resp.boxID], DateOf(KeyOf(d))))

\* C24: nothing is cached.  Every list, count, group, latest and daily
\* report answer is computed from the store as it is when the query runs,
\* so a record inserted before the query, the first of its partition
\* included, is in the answer and in its total.
C24_Reflects == QueriesReflect /\ ReportReflects

----------------------------------------------------------------------------
\* C25: ListRecordsByGroup and ListRecordsLatestByGroup fail fast.  When the
\* store cannot read one of the listed partitions the call returns an error
\* and no records; an answer without an error comes from a call in which
\* every listed partition was read, and its total counts them all.
C25_FailFast ==
    resp.op \in {"ListRecordsByGroup", "ListRecordsLatestByGroup"} =>
        /\ Down(resp.boxIDs, resp.down) => resp.err # "" /\ resp.Records = <<>>
        /\ resp.err = "" =>
              resp.Total = IF resp.op = "ListRecordsByGroup"
                           THEN SumMatching(resp.boxIDs, NilQuery, 1)
                           ELSE Cardinality({i \in DOMAIN resp.boxIDs : db[resp.boxIDs[i]] # {}})

\* A group query has failed on a list of two partitions that both hold
\* records, the second of which could not be read.
C25_Witness ==
    /\ resp.op \in {"ListRecordsByGroup", "ListRecordsLatestByGroup"}
    /\ Len(resp.boxIDs) = 2
    /\ \A i \in DOMAIN resp.boxIDs : db[resp.boxIDs[i]] # {}
    /\ resp.down = {resp.boxIDs[2]}
    /\ resp.err # ""

----------------------------------------------------------------------------
\* The listed sources whose Aggregate fails.
FailingSources == {i \in DOMAIN resp.sources : AggregateFails(db[resp.sources[i]])}

\* C26: ReportByMetric skips a partition whose query fails.  With a failing
\* partition among its sources the operation still ends without a failure
\* and returns a row for every (healthy partition, year, month, metric) with
\* a numeric occurrence, and no other row.
C26_SkipOnError ==
    (resp.op = "ReportByMetric" /\ FailingSources # {}) =>
        LET combos == Combinations(resp.sources, resp.metrics)
        IN /\ ~resp.panic
           /\ Len(resp.reports) = Cardinality(combos)
           /\ \A c \in combos :
                \E i \in DOMAIN resp.reports :
                    resp.reports[i].Info = [Year |-> c[2], Month |-> c[3],
                                            Metric |-> resp.metrics[c[4]]]

\* With a failing partition and no healthy partition that holds a record
\* with t, the report is empty and nothing fails.
SkipsFailing ==
    (resp.op = "ReportByMetric" /\ FailingSources # {}
        /\ \A i \in DOMAIN resp.sources \ FailingSources :
              \A d \in db[resp.sources[i]] : "t" \notin DOMAIN d) =>
        ~resp.panic /\ resp.reports = <<>>

----------------------------------------------------------------------------
\* The records of the pages are those of the listed partitions, each once.
EachOnce ==
    LET R == resp.Records
    IN /\ Len(R) = SumMatching(resp.boxIDs, NilQuery, 1)
       /\ \A i, j \in DOMAIN R : i # j => R[i] # R[j]
       /\ \A i \in DOMAIN resp.boxIDs : \A d \in db[resp.boxIDs[i]] :
             \E j \in DOMAIN R :
                 R[j]["box_id"].v = resp.boxIDs[i] /\ Untagged(R[j]) = Returned(d)

\* C27: the pages of ListRecordsByGroup at skip 0, limit, 2 * limit, ... over
\* an unchanged store hold every record of the group exactly once, also when
\* two partitions hold records of the same key.
C27_EachOnce == resp.op = "pages" => EachOnce

\* The same for groups in which no key is stored in two partitions.
PagesWithoutTies ==
    (resp.op = "pages"
        /\ \A i, j \in DOMAIN resp.boxIDs : \A d \in db[resp.boxIDs[i]], e \in db[resp.boxIDs[j]] :
              KeyOf(d) = KeyOf(e) => i = j) => EachOnce

----------------------------------------------------------------------------
\* C28: a refresh token is single-use.  Whatever the interleaving of the
\* RefreshToken calls, at most one call succeeds with a given token.
C28_SingleUse == \A t \in TokenIDs : db.uses[t] <= 1

\* A RefreshToken call that starts after a call has succeeded with its token,
\* or after Logout has removed the token, gets no further than
\* GetRefreshToken.
LaterCallsFail ==
    [][\A c \in Clients :
          (~pending[c].busy /\ pending'[c].busy) =>
              /\ db.uses[pending'[c].token] = 0
              /\ pending'[c].rt \in db.sessions]_vars

----------------------------------------------------------------------------
\* C29: no two metrics that are not deleted have the same code, whatever
\* CreateMetric, UpdateMetric and DeleteMetric calls have run.
C29_UniqueCodes ==
    \A m, n \in db.metric : (m.DTime = <<>> /\ n.DTime = <<>> /\ m.Code = n.Code) => m = n

----------------------------------------------------------------------------
\* The points of the curve ascend by X.
Ascending(c) == \A i, j \in DOMAIN c.Points : i < j => c.Points[i].X <= c.Points[j].X

====
